---- MODULE Spec2Model ----
(***************************************************************************)
(* Model of the Tech-news dashboard's useArticles hook (hooks/useArticles) *)
(* together with the backend queries it issues and the main content of    *)
(* Home (Spec), of one article query taken alone (SpecQuery), of one       *)
(* ArticleCard (SpecCard), of one Pagination component (SpecPagination)    *)
(* and of the Header's search box driving the hook (SpecHeader).           *)
(*                                                                         *)
(* React scheduling: a handler or a promise continuation changes state,    *)
(* React renders, and the effects whose dependencies changed run before    *)
(* the next handler or continuation is processed.  FlushEffects is that    *)
(* effect pass; every other action is enabled only when no effect is       *)
(* pending.                                                                *)
(***************************************************************************)
EXTENDS Integers, Sequences, FiniteSets, TLC

(* ------------------------------ bounds --------------------------------- *)
MaxRows     == 28      \* rows of the largest articles table
MaxInFlight == 2       \* article requests that may overlap
MaxPageArg  == 3       \* largest page number passed to handlePageChange
MaxTotalPages == 15    \* largest totalPages given to a Pagination component

(* --------------------------- program constants ------------------------- *)
itemsPerPage == 12
DefaultScore == 3
NullScore    == 0 - 1  \* SQL NULL in the relevance_score column
NoError      == "null"
ErrorMessage == "Failed to load articles. Please try again."

Sorts    == {"recent", "relevance"}
CategoryTable == <<"AI", "DEV">>          \* names in the categories table, in name order
CatNames == { CategoryTable[i] : i \in 1..Len(CategoryTable) }
EmptyQuery == << >>
Queries  == {EmptyQuery, <<"a">>}   \* texts given to handleSearch (SearchTexts holds more)
DbSizes  == {0, MaxRows}

(* ------------------------------ strings -------------------------------- *)
\* Strings are sequences of characters.
Lower(ch) == IF ch = "A" THEN "a" ELSE IF ch = "B" THEN "b" ELSE ch

IsSpace(ch) == ch = " "

RECURSIVE TrimLeft(_)
TrimLeft(s) ==
  IF s = << >> THEN << >>
  ELSE IF IsSpace(Head(s)) THEN TrimLeft(Tail(s)) ELSE s

RECURSIVE TrimRight(_)
TrimRight(s) ==
  IF s = << >> THEN << >>
  ELSE IF IsSpace(s[Len(s)]) THEN TrimRight(SubSeq(s, 1, Len(s) - 1)) ELSE s

Trim(s) == TrimRight(TrimLeft(s))

\* Variant of Ilike: the match is on the title column's exact case (LIKE).
IlikeCaseSensitive(text, pat) ==
  \E o \in 0..(Len(text) - Len(pat)) :
    \A k \in 1..Len(pat) : text[o + k] = pat[k]

\* column ILIKE '%pat%' : case-insensitive substring match
Ilike(text, pat) ==
  \E o \in 0..(Len(text) - Len(pat)) :
    \A k \in 1..Len(pat) : Lower(text[o + k]) = Lower(pat[k])

(* ------------------------------ backend -------------------------------- *)
\* The articles table.  Row i is fixed by its primary key; a database is
\* the rows 1..n.
RowTitle(i) ==
  IF i % 3 = 0 THEN <<"A", "b">> ELSE IF i % 3 = 1 THEN <<"b", " ">> ELSE <<"c">>

RowDescription(i) ==
  IF i % 5 = 0 THEN <<"a">> ELSE << >>

RowCategories(i) ==
  IF i % 4 = 0 THEN <<"AI">>
  ELSE IF i % 4 = 1 THEN <<"DEV">>
  ELSE IF i % 4 = 2 THEN <<"AI", "DEV">>
  ELSE << >>

Row(i) ==
  [ id              |-> i,
    title           |-> RowTitle(i),
    description     |-> RowDescription(i),
    filtered        |-> (i % 9 = 0),
    published_date  |-> (i * 5) % 31,
    relevance_score |-> IF i % 6 = 0 THEN NullScore ELSE i % 6,
    categories      |-> RowCategories(i) ]

Database(n) == { Row(i) : i \in 1..n }


\* Variant of MatchesQuery: the .eq('filtered', false) condition is missing.
MatchesQueryNoFilter(row, q) ==
  (Trim(q) # << >>) => (Ilike(row.title, q) \/ Ilike(row.description, q))

\* .eq('filtered', false), then the search filter when the trimmed text is
\* non-empty; the pattern is built from the untrimmed text.
MatchesQuery(row, q) ==
  /\ row.filtered = FALSE
  /\ (Trim(q) # << >>) => (Ilike(row.title, q) \/ Ilike(row.description, q))

\* ORDER BY <column> DESC: larger values first, NULL before every value
\* (the backend's default for a descending order); rows with equal keys
\* are returned in primary-key order.
SortColumn(s) == IF s = "recent" THEN "published_date" ELSE "relevance_score"

Precedes(r1, r2, s) ==
  LET k1 == r1[SortColumn(s)]
      k2 == r2[SortColumn(s)]
  IN  IF k1 = k2 THEN r1.id < r2.id
      ELSE IF k1 = NullScore THEN TRUE
      ELSE IF k2 = NullScore THEN FALSE
      ELSE k1 > k2

RECURSIVE OrderRows(_, _)
OrderRows(rows, s) ==
  IF rows = {} THEN << >>
  ELSE LET first == CHOOSE r \in rows : \A o \in rows \ {r} : Precedes(r, o, s)
       IN  <<first>> \o OrderRows(rows \ {first}, s)

ArticlesQuery(database, q, s) ==
  OrderRows({ r \in database : MatchesQuery(r, q) }, s)

\* Variant of FormatArticle: relevance_score is copied without a default.
FormatArticleNoDefault(row) ==
  [ id              |-> row.id,
    published_date  |-> row.published_date,
    relevance_score |-> row.relevance_score,
    categories      |-> row.categories ]

\* data.map(article => ({...})): the fields the hook and the views read.
FormatArticle(row) ==
  [ id              |-> row.id,
    published_date  |-> row.published_date,
    relevance_score |-> IF row.relevance_score = NullScore \/ row.relevance_score = 0
                        THEN DefaultScore ELSE row.relevance_score,
    categories      |-> row.categories ]

FormatArticles(rows) == [ i \in 1..Len(rows) |-> FormatArticle(rows[i]) ]

\* The candidate databases, by number of rows (tabulated once).
Databases == [ n \in DbSizes |-> Database(n) ]

\* What a successful article request delivers to the hook, per database
\* and request (tabulated once).
Delivered ==
  [ n \in DbSizes, q \in Queries, s \in Sorts |->
      FormatArticles(ArticlesQuery(Databases[n], q, s)) ]

\* Number of article_categories links of a category.
LinkCount(database, name) ==
  Cardinality({ r \in database :
                  \E i \in 1..Len(r.categories) : r.categories[i] = name })

\* categories.select('id, name, article_categories(count)').order('name'):
\* the embedded aggregate comes back as a one-element list [{count: N}].
CategoriesQuery(database) ==
  [ i \in 1..Len(CategoryTable) |->
      [ id   |-> i,
        name |-> CategoryTable[i],
        article_categories |-> << [count |-> LinkCount(database, CategoryTable[i])] >> ] ]

\* data.map(cat => ({ id, name, article_count: cat.article_categories?.length || 0 }))
FormatCategory(cat) ==
  [ id            |-> cat.id,
    name          |-> cat.name,
    article_count |-> Len(cat.article_categories) ]

FormatCategories(data) == [ i \in 1..Len(data) |-> FormatCategory(data[i]) ]

(* ------------------------------- state --------------------------------- *)
VARIABLES
  dbRows,             \* the backend's articles table holds the rows 1..dbRows
  categories,         \* useState<Category[]>([])
  loading,            \* useState(true)
  error,              \* useState<string | null>(null)
  searchQuery,        \* useState('')
  selectedCategories, \* useState<string[]>([])
  sortBy,             \* useState('recent')
  currentPage,        \* useState(1)
  totalItems,         \* useState(0)
  allArticles,        \* useState<Article[]>([])
  mounted,            \* the first effect pass has run
  fetchEffectDue,     \* [searchQuery, sortBy] changed since the last effect pass
  resetEffectDue,     \* [filteredArticles] changed since the last effect pass
  inFlight,           \* article requests awaiting a response, per (searchQuery, sortBy)
  categoriesInFlight, \* the categories request awaits a response
  categoriesQueries,  \* number of categories queries issued so far
  lastOp,             \* the operation that produced this state
  latestFetch,        \* the most recently started article fetch: "none", "inFlight", "loaded", "failed"
  queryText,          \* a search text given to one article query
  querySort,          \* the sort order of that query
  queryRows,          \* the table that query runs against holds the rows 1..queryRows
  queryResult,        \* the formatted articles that query produced
  queryDone,          \* that query has returned
  cardArticle,        \* ArticleCard: the article prop
  imageError,         \* ArticleCard: useState(false)
  imageLoaded,        \* ArticleCard: useState(false)
  pagination,         \* Pagination: the props currentPage and totalPages
  headerSearchQuery   \* Header: useState('') (its own searchQuery)

vars == << dbRows, categories, loading, error, searchQuery, selectedCategories,
           sortBy, currentPage, totalItems, allArticles, mounted,
           fetchEffectDue, resetEffectDue, inFlight, categoriesInFlight,
           categoriesQueries, lastOp, latestFetch,
           queryText, querySort, queryRows, queryResult, queryDone,
           cardArticle, imageError, imageLoaded, pagination, headerSearchQuery >>

\* the state of the hook
hookVars == << dbRows, categories, loading, error, searchQuery, selectedCategories,
               sortBy, currentPage, totalItems, allArticles, mounted,
               fetchEffectDue, resetEffectDue, inFlight, categoriesInFlight,
               categoriesQueries, lastOp, latestFetch >>

\* the state of one article query taken alone
queryVars == << queryText, querySort, queryRows, queryResult, queryDone >>

\* the state of one ArticleCard
cardVars == << cardArticle, imageError, imageLoaded >>

\* the props of one Pagination component
paginationVars == << pagination >>

\* the state of the Header
headerVars == << headerSearchQuery >>

db == Databases[dbRows]

Requests == Queries \X Sorts

RECURSIVE SumOver(_, _)
SumOver(f, S) ==
  IF S = {} THEN 0
  ELSE LET x == CHOOSE y \in S : TRUE IN f[x] + SumOver(f, S \ {x})

InFlightCount == SumOver(inFlight, Requests)

Op(name, arg) == [op |-> name, arg |-> arg]

(* --------------------------- derived values ---------------------------- *)
\* selectedCategories.some(c => article.categories.includes(c))
Includes(seq, x) == \E i \in 1..Len(seq) : seq[i] = x

\* Variant of Some: every() instead of some(), AND across the selection.
SomeAsEvery(selected, article) ==
  \A i \in 1..Len(selected) : Includes(article.categories, selected[i])

RECURSIVE Some(_, _)
Some(selected, article) ==
  IF selected = << >> THEN FALSE
  ELSE Includes(article.categories, Head(selected)) \/ Some(Tail(selected), article)

FilterArticles(articles, selected) ==
  IF Len(selected) = 0 THEN articles
  ELSE LET Keep(article) == Some(selected, article)
       IN  SelectSeq(articles, Keep)

filteredArticles == FilterArticles(allArticles, selectedCategories)

\* Array.prototype.slice(start, end) with 0-based, end-exclusive indices
Slice(seq, start, end) ==
  LET lo == IF start > Len(seq) THEN Len(seq) ELSE start
      hi == IF end > Len(seq) THEN Len(seq) ELSE end
  IN  IF lo >= hi THEN << >> ELSE SubSeq(seq, lo + 1, hi)

\* Variant of PageOf: startIndex computed from currentPage instead of
\* currentPage - 1.
PageOfShifted(articles, page) ==
  LET startIndex == page * itemsPerPage
      endIndex   == startIndex + itemsPerPage
  IN  Slice(articles, startIndex, endIndex)

PageOf(articles, page) ==
  LET startIndex == (page - 1) * itemsPerPage
      endIndex   == startIndex + itemsPerPage
  IN  Slice(articles, startIndex, endIndex)

paginatedArticles == PageOf(filteredArticles, currentPage)

\* Math.ceil(a / b) for a >= 0, b > 0
Ceil(a, b) == (a + b - 1) \div b

TotalPagesOf(items) == Ceil(items, itemsPerPage)

totalPages == TotalPagesOf(totalItems)

EffectPending == ~mounted \/ fetchEffectDue \/ resetEffectDue

(* -------------------------------- Home --------------------------------- *)
\* Variant of MainView: the article list is tested first.
MainViewListFirst ==
  IF Len(paginatedArticles) # 0 THEN "list"
  ELSE IF loading THEN "spinner"
  ELSE IF error # NoError THEN "error"
  ELSE "empty"

\* The main content of Home: loading ? spinner : error ? message and
\* Try Again : articles.length === 0 ? 'No articles found' : the cards of
\* the page and the Pagination component.
MainView ==
  IF loading THEN "spinner"
  ELSE IF error # NoError THEN "error"
  ELSE IF Len(paginatedArticles) = 0 THEN "empty"
  ELSE "list"

\* the articles Home renders an ArticleCard for
listedArticles == IF MainView = "list" THEN paginatedArticles ELSE << >>

\* the Try Again button is on screen
tryAgainShown == MainView = "error"

\* the Pagination component is mounted; it renders nothing when totalPages <= 1
paginationMounted == MainView = "list"

\* the hook's filteredArticlesCount
filteredArticlesCount == Len(filteredArticles)

\* the props Home gives Pagination
paginationProps ==
  [ currentPage  |-> currentPage,
    totalPages   |-> totalPages,
    totalItems   |-> filteredArticlesCount,
    itemsPerPage |-> 12 ]

(* ------------------------------- actions ------------------------------- *)
\* no Pagination component is examined on its own
PaginationIdle == pagination = [currentPage |-> 1, totalPages |-> 0]

\* the Header's text is not examined
HeaderIdle == headerSearchQuery = << >>

\* no article query is examined on its own
QueryIdle ==
  /\ queryText = EmptyQuery
  /\ querySort = "recent"
  /\ queryRows = 0
  /\ queryResult = << >>
  /\ queryDone = FALSE

\* no ArticleCard is examined on its own
CardIdle ==
  /\ cardArticle = [image_url |-> << >>, categories |-> << >>]
  /\ imageError = FALSE
  /\ imageLoaded = FALSE

HookInit ==
  /\ dbRows \in DbSizes
  /\ categories = << >>
  /\ loading = TRUE
  /\ error = NoError
  /\ searchQuery = EmptyQuery
  /\ selectedCategories = << >>
  /\ sortBy = "recent"
  /\ currentPage = 1
  /\ totalItems = 0
  /\ allArticles = << >>
  /\ mounted = FALSE
  /\ fetchEffectDue = TRUE
  /\ resetEffectDue = TRUE
  /\ inFlight = [r \in Requests |-> 0]
  /\ categoriesInFlight = FALSE
  /\ categoriesQueries = 0
  /\ lastOp = Op("init", << >>)
  /\ latestFetch = "none"

\* the hook before its first effect pass, against the empty table
HookIdle == HookInit /\ dbRows = 0

Init == HookInit /\ QueryIdle /\ CardIdle /\ PaginationIdle /\ HeaderIdle

\* Variant of CategoriesEffectDue: the effect has no dependency list and
\* runs in every effect pass.
CategoriesEffectEveryPass == TRUE

\* useEffect(() => { fetchCategories() }, []): due on the first pass only
CategoriesEffectDue == ~mounted

\* the request sent by fetchAllArticles, built from the rendered
\* searchQuery and sortBy
Launch(q, s) == [inFlight EXCEPT ![<<q, s>>] = @ + 1]

\* Variant of FlushEffects: the effect on [filteredArticles] updates
\* totalItems but does not call setCurrentPage(1).
FlushEffectsKeepPage ==
  /\ EffectPending
  /\ IF CategoriesEffectDue
     THEN /\ categoriesInFlight' = TRUE
          /\ categoriesQueries' = categoriesQueries + 1
     ELSE UNCHANGED << categoriesInFlight, categoriesQueries >>
  /\ IF fetchEffectDue
     THEN /\ loading' = TRUE
          /\ error' = NoError
          /\ inFlight' = Launch(searchQuery, sortBy)
          /\ latestFetch' = "inFlight"
     ELSE UNCHANGED << loading, error, inFlight, latestFetch >>
  /\ IF resetEffectDue
     THEN totalItems' = Len(filteredArticles)
     ELSE UNCHANGED totalItems
  /\ UNCHANGED currentPage
  /\ mounted' = TRUE
  /\ fetchEffectDue' = FALSE
  /\ resetEffectDue' = FALSE
  /\ lastOp' = Op("effects", << >>)
  /\ UNCHANGED << queryVars, cardVars, paginationVars, headerVars >>
  /\ UNCHANGED << dbRows, categories, searchQuery, selectedCategories, sortBy, allArticles >>

\* Variant of FlushEffects: the effect on [filteredArticles] resets the page
\* but does not call setTotalItems.
FlushEffectsKeepTotal ==
  /\ EffectPending
  /\ IF CategoriesEffectDue
     THEN /\ categoriesInFlight' = TRUE
          /\ categoriesQueries' = categoriesQueries + 1
     ELSE UNCHANGED << categoriesInFlight, categoriesQueries >>
  /\ IF fetchEffectDue
     THEN /\ loading' = TRUE
          /\ error' = NoError
          /\ inFlight' = Launch(searchQuery, sortBy)
          /\ latestFetch' = "inFlight"
     ELSE UNCHANGED << loading, error, inFlight, latestFetch >>
  /\ IF resetEffectDue
     THEN currentPage' = 1
     ELSE UNCHANGED currentPage
  /\ UNCHANGED totalItems
  /\ mounted' = TRUE
  /\ fetchEffectDue' = FALSE
  /\ resetEffectDue' = FALSE
  /\ lastOp' = Op("effects", << >>)
  /\ UNCHANGED << queryVars, cardVars, paginationVars, headerVars >>
  /\ UNCHANGED << dbRows, categories, searchQuery, selectedCategories, sortBy, allArticles >>

\* The effect pass after a render: the categories effect, the effect on
\* [searchQuery, sortBy] (fetchAllArticles up to its await) and the effect
\* on [filteredArticles], each when it is due, in declaration order.
FlushEffects ==
  /\ EffectPending
  /\ IF CategoriesEffectDue
     THEN /\ categoriesInFlight' = TRUE
          /\ categoriesQueries' = categoriesQueries + 1
     ELSE UNCHANGED << categoriesInFlight, categoriesQueries >>
  /\ IF fetchEffectDue
     THEN /\ loading' = TRUE
          /\ error' = NoError
          /\ inFlight' = Launch(searchQuery, sortBy)
          /\ latestFetch' = "inFlight"
     ELSE UNCHANGED << loading, error, inFlight, latestFetch >>
  /\ IF resetEffectDue
     THEN /\ totalItems' = Len(filteredArticles)
          /\ currentPage' = 1
     ELSE UNCHANGED << totalItems, currentPage >>
  /\ mounted' = TRUE
  /\ fetchEffectDue' = FALSE
  /\ resetEffectDue' = FALSE
  /\ lastOp' = Op("effects", << >>)
  /\ UNCHANGED << queryVars, cardVars, paginationVars, headerVars >>
  /\ UNCHANGED << dbRows, categories, searchQuery, selectedCategories, sortBy, allArticles >>

\* fetchCategories after its await, the query having succeeded
CategoriesLoaded ==
  /\ ~EffectPending
  /\ categoriesInFlight
  /\ categoriesInFlight' = FALSE
  /\ categories' = FormatCategories(CategoriesQuery(db))
  /\ lastOp' = Op("categoriesLoaded", << >>)
  /\ UNCHANGED latestFetch
  /\ UNCHANGED << queryVars, cardVars, paginationVars, headerVars >>
  /\ UNCHANGED << dbRows, loading, error, searchQuery, selectedCategories, sortBy,
                  currentPage, totalItems, allArticles, mounted, fetchEffectDue,
                  resetEffectDue, inFlight, categoriesQueries >>

\* Variant of CategoriesFailed: the catch block reports the failure the way
\* fetchAllArticles does.
CategoriesFailedReported ==
  /\ ~EffectPending
  /\ categoriesInFlight
  /\ categoriesInFlight' = FALSE
  /\ error' = ErrorMessage
  /\ loading' = FALSE
  /\ lastOp' = Op("categoriesFailed", << >>)
  /\ UNCHANGED latestFetch
  /\ UNCHANGED << queryVars, cardVars, paginationVars, headerVars >>
  /\ UNCHANGED << dbRows, categories, searchQuery, selectedCategories,
                  sortBy, currentPage, totalItems, allArticles, mounted,
                  fetchEffectDue, resetEffectDue, inFlight, categoriesQueries >>

\* fetchCategories after its await, the query having failed: console.error only
CategoriesFailed ==
  /\ ~EffectPending
  /\ categoriesInFlight
  /\ categoriesInFlight' = FALSE
  /\ lastOp' = Op("categoriesFailed", << >>)
  /\ UNCHANGED latestFetch
  /\ UNCHANGED << queryVars, cardVars, paginationVars, headerVars >>
  /\ UNCHANGED << dbRows, categories, loading, error, searchQuery, selectedCategories,
                  sortBy, currentPage, totalItems, allArticles, mounted,
                  fetchEffectDue, resetEffectDue, inFlight, categoriesQueries >>

\* The most recently started fetch was built from the searchQuery and sortBy
\* of the last render, so a response for (q, s) may be its response only if
\* (q, s) are the current values; any other request for (q, s) still awaiting
\* its response was started earlier.
IsLatestInFlight(q, s) ==
  latestFetch = "inFlight" /\ <<q, s>> = <<searchQuery, sortBy>>

OlderInFlight(q, s) ==
  inFlight[<<q, s>>] > (IF IsLatestInFlight(q, s) THEN 1 ELSE 0)

\* refetch: fetchAllArticles called from the Try Again button, the only
\* caller of refetch
Refetch ==
  /\ ~EffectPending
  /\ tryAgainShown
  /\ InFlightCount < MaxInFlight
  /\ loading' = TRUE
  /\ error' = NoError
  /\ inFlight' = Launch(searchQuery, sortBy)
  /\ latestFetch' = "inFlight"
  /\ lastOp' = Op("refetch", << >>)
  /\ UNCHANGED << queryVars, cardVars, paginationVars, headerVars >>
  /\ UNCHANGED << dbRows, categories, searchQuery, selectedCategories, sortBy,
                  currentPage, totalItems, allArticles, mounted, fetchEffectDue,
                  resetEffectDue, categoriesInFlight, categoriesQueries >>

\* fetchAllArticles after its await, the query having returned data
ArticlesLoaded(q, s) ==
  /\ ~EffectPending
  /\ inFlight[<<q, s>>] > 0
  /\ inFlight' = [inFlight EXCEPT ![<<q, s>>] = @ - 1]
  /\ \E isLatest \in BOOLEAN :
        /\ IF isLatest THEN IsLatestInFlight(q, s) ELSE OlderInFlight(q, s)
        /\ latestFetch' = IF isLatest THEN "loaded" ELSE latestFetch
  /\ LET formattedArticles == Delivered[dbRows, q, s]
     IN  /\ allArticles' = formattedArticles
         /\ totalItems' = Len(formattedArticles)
  /\ loading' = FALSE
  /\ resetEffectDue' = TRUE
  /\ lastOp' = Op("articlesLoaded", << >>)
  /\ UNCHANGED << queryVars, cardVars, paginationVars, headerVars >>
  /\ UNCHANGED << dbRows, categories, error, searchQuery, selectedCategories, sortBy,
                  currentPage, mounted, fetchEffectDue, categoriesInFlight,
                  categoriesQueries >>

\* Variant of ArticlesFailed: the catch block also empties the list.
ArticlesFailedClearing(q, s, kind) ==
  /\ ~EffectPending
  /\ inFlight[<<q, s>>] > 0
  /\ inFlight' = [inFlight EXCEPT ![<<q, s>>] = @ - 1]
  /\ \E isLatest \in BOOLEAN :
        /\ IF isLatest THEN IsLatestInFlight(q, s) ELSE OlderInFlight(q, s)
        /\ latestFetch' = IF isLatest THEN "failed" ELSE latestFetch
  /\ error' = ErrorMessage
  /\ loading' = FALSE
  /\ allArticles' = << >>
  /\ resetEffectDue' = TRUE
  /\ lastOp' = Op("articlesFailed", <<kind>>)
  /\ UNCHANGED << queryVars, cardVars, paginationVars, headerVars >>
  /\ UNCHANGED << dbRows, categories, searchQuery, selectedCategories, sortBy,
                  currentPage, totalItems, mounted, fetchEffectDue,
                  categoriesInFlight, categoriesQueries >>

\* Variant of ArticlesFailed: setLoading(false) sits at the end of the try
\* block instead of a finally block, so a failure leaves loading as it was.
ArticlesFailedKeepLoading(q, s, kind) ==
  /\ ~EffectPending
  /\ inFlight[<<q, s>>] > 0
  /\ inFlight' = [inFlight EXCEPT ![<<q, s>>] = @ - 1]
  /\ \E isLatest \in BOOLEAN :
        /\ IF isLatest THEN IsLatestInFlight(q, s) ELSE OlderInFlight(q, s)
        /\ latestFetch' = IF isLatest THEN "failed" ELSE latestFetch
  /\ error' = ErrorMessage
  /\ lastOp' = Op("articlesFailed", <<kind>>)
  /\ UNCHANGED << queryVars, cardVars, paginationVars, headerVars >>
  /\ UNCHANGED << dbRows, categories, loading, searchQuery, selectedCategories, sortBy,
                  currentPage, totalItems, allArticles, mounted, fetchEffectDue,
                  resetEffectDue, categoriesInFlight, categoriesQueries >>

\* fetchAllArticles after its await, the query having returned an error
\* ("backend") or the request having thrown ("thrown")
ArticlesFailed(q, s, kind) ==
  /\ ~EffectPending
  /\ inFlight[<<q, s>>] > 0
  /\ inFlight' = [inFlight EXCEPT ![<<q, s>>] = @ - 1]
  /\ \E isLatest \in BOOLEAN :
        /\ IF isLatest THEN IsLatestInFlight(q, s) ELSE OlderInFlight(q, s)
        /\ latestFetch' = IF isLatest THEN "failed" ELSE latestFetch
  /\ error' = ErrorMessage
  /\ loading' = FALSE
  /\ lastOp' = Op("articlesFailed", <<kind>>)
  /\ UNCHANGED << queryVars, cardVars, paginationVars, headerVars >>
  /\ UNCHANGED << dbRows, categories, searchQuery, selectedCategories, sortBy,
                  currentPage, totalItems, allArticles, mounted, fetchEffectDue,
                  resetEffectDue, categoriesInFlight, categoriesQueries >>

handleSearch(query) ==
  /\ ~EffectPending
  /\ (query # searchQuery) => InFlightCount < MaxInFlight
  /\ searchQuery' = query
  /\ fetchEffectDue' = (query # searchQuery)
  /\ lastOp' = Op("handleSearch", << >>)
  /\ UNCHANGED latestFetch
  /\ UNCHANGED << queryVars, cardVars, paginationVars, headerVars >>
  /\ UNCHANGED << dbRows, categories, loading, error, selectedCategories, sortBy,
                  currentPage, totalItems, allArticles, mounted, resetEffectDue,
                  inFlight, categoriesInFlight, categoriesQueries >>

\* Variant of setSortBy: sortBy is missing from the fetch effect's
\* dependency list, so a change of sort order makes no effect due.
setSortByNoEffect(value) ==
  /\ ~EffectPending
  /\ sortBy' = value
  /\ lastOp' = Op("setSortBy", << >>)
  /\ UNCHANGED latestFetch
  /\ UNCHANGED << queryVars, cardVars, paginationVars, headerVars >>
  /\ UNCHANGED << dbRows, categories, loading, error, searchQuery, selectedCategories,
                  currentPage, totalItems, allArticles, mounted, fetchEffectDue,
                  resetEffectDue, inFlight, categoriesInFlight, categoriesQueries >>

setSortBy(value) ==
  /\ ~EffectPending
  /\ (value # sortBy) => InFlightCount < MaxInFlight
  /\ sortBy' = value
  /\ fetchEffectDue' = (value # sortBy)
  /\ lastOp' = Op("setSortBy", << >>)
  /\ UNCHANGED latestFetch
  /\ UNCHANGED << queryVars, cardVars, paginationVars, headerVars >>
  /\ UNCHANGED << dbRows, categories, loading, error, searchQuery, selectedCategories,
                  currentPage, totalItems, allArticles, mounted, resetEffectDue,
                  inFlight, categoriesInFlight, categoriesQueries >>

\* Variant of Toggle: a category that is not the last selected one is
\* appended without the includes test.
ToggleAppending(prev, category) ==
  IF prev # << >> /\ prev[Len(prev)] = category
  THEN SubSeq(prev, 1, Len(prev) - 1)
  ELSE Append(prev, category)

\* Variant of Toggle: single selection, the new category replaces the others.
ToggleSingle(prev, category) ==
  IF Includes(prev, category) THEN << >> ELSE <<category>>

\* prev.includes(category) ? prev.filter(c => c !== category) : [...prev, category]
Toggle(prev, category) ==
  IF Includes(prev, category)
  THEN LET Other(c) == c # category IN SelectSeq(prev, Other)
  ELSE Append(prev, category)

\* the new array gives filteredArticles a new identity in every case
handleCategoryToggle(category) ==
  /\ ~EffectPending
  /\ selectedCategories' = Toggle(selectedCategories, category)
  /\ resetEffectDue' = TRUE
  /\ lastOp' = Op("handleCategoryToggle", <<category>>)
  /\ UNCHANGED latestFetch
  /\ UNCHANGED << queryVars, cardVars, paginationVars, headerVars >>
  /\ UNCHANGED << dbRows, categories, loading, error, searchQuery, sortBy,
                  currentPage, totalItems, allArticles, mounted, fetchEffectDue,
                  inFlight, categoriesInFlight, categoriesQueries >>

\* Variant of handleClearFilters: only the category selection is cleared.
handleClearFiltersKeepQuery ==
  /\ ~EffectPending
  /\ selectedCategories' = << >>
  /\ resetEffectDue' = (Len(selectedCategories) > 0)
  /\ lastOp' = Op("handleClearFilters", << >>)
  /\ UNCHANGED latestFetch
  /\ UNCHANGED << queryVars, cardVars, paginationVars, headerVars >>
  /\ UNCHANGED << dbRows, categories, loading, error, searchQuery, sortBy, currentPage,
                  totalItems, allArticles, mounted, fetchEffectDue, inFlight,
                  categoriesInFlight, categoriesQueries >>

\* With an empty selection before and after, filteredArticles stays the
\* allArticles array itself, so the effect on [filteredArticles] is not due.
handleClearFilters ==
  /\ ~EffectPending
  /\ (searchQuery # EmptyQuery) => InFlightCount < MaxInFlight
  /\ selectedCategories' = << >>
  /\ searchQuery' = EmptyQuery
  /\ resetEffectDue' = (Len(selectedCategories) > 0)
  /\ fetchEffectDue' = (searchQuery # EmptyQuery)
  /\ lastOp' = Op("handleClearFilters", << >>)
  /\ UNCHANGED latestFetch
  /\ UNCHANGED << queryVars, cardVars, paginationVars, headerVars >>
  /\ UNCHANGED << dbRows, categories, loading, error, sortBy, currentPage, totalItems,
                  allArticles, mounted, inFlight, categoriesInFlight,
                  categoriesQueries >>

\* Variant of handlePageChange: the range test is missing.
handlePageChangeUnchecked(page) ==
  /\ ~EffectPending
  /\ currentPage' = page
  /\ lastOp' = Op("handlePageChange", << >>)
  /\ UNCHANGED latestFetch
  /\ UNCHANGED << queryVars, cardVars, paginationVars, headerVars >>
  /\ UNCHANGED << dbRows, categories, loading, error, searchQuery, selectedCategories,
                  sortBy, totalItems, allArticles, mounted, fetchEffectDue,
                  resetEffectDue, inFlight, categoriesInFlight, categoriesQueries >>

handlePageChange(page) ==
  /\ ~EffectPending
  /\ currentPage' = IF page >= 1 /\ page <= totalPages THEN page ELSE currentPage
  /\ lastOp' = Op("handlePageChange", << >>)
  /\ UNCHANGED latestFetch
  /\ UNCHANGED << queryVars, cardVars, paginationVars, headerVars >>
  /\ UNCHANGED << dbRows, categories, loading, error, searchQuery, selectedCategories,
                  sortBy, totalItems, allArticles, mounted, fetchEffectDue,
                  resetEffectDue, inFlight, categoriesInFlight, categoriesQueries >>

Next ==
  \/ FlushEffects
  \/ CategoriesLoaded
  \/ CategoriesFailed
  \/ Refetch
  \/ \E q \in Queries, s \in Sorts : ArticlesLoaded(q, s)
  \/ \E q \in Queries, s \in Sorts, kind \in {"backend", "thrown"} : ArticlesFailed(q, s, kind)
  \/ \E query \in Queries : handleSearch(query)
  \/ \E value \in Sorts : setSortBy(value)
  \/ \E category \in CatNames : handleCategoryToggle(category)
  \/ handleClearFilters
  \/ \E page \in 0..MaxPageArg : handlePageChange(page)

Spec == Init /\ [][Next]_vars

(* ------------------------- one article query --------------------------- *)
\* The query of fetchAllArticles taken alone: one search text, one sort
\* order and one table go in, the formatted articles come out.
SearchTexts ==
  { << >>, <<" ">>, <<" ", " ">>, <<"a">>, <<"A">>, <<"B">>, <<"a", "b">>,
    <<"b", " ">>, <<" ", "a">>, <<"c">>, <<"b", "a">> }

QuerySizes == {0, 7, MaxRows}

InitQuery ==
  /\ queryText \in SearchTexts
  /\ querySort \in Sorts
  /\ queryRows \in QuerySizes
  /\ queryResult = << >>
  /\ queryDone = FALSE
  /\ HookIdle
  /\ CardIdle
  /\ PaginationIdle
  /\ HeaderIdle

\* fetchAllArticles from the query to formattedArticles
RunQuery ==
  /\ ~queryDone
  /\ queryResult' = FormatArticles(ArticlesQuery(Database(queryRows), queryText, querySort))
  /\ queryDone' = TRUE
  /\ UNCHANGED << queryText, querySort, queryRows >>
  /\ UNCHANGED << hookVars, cardVars, paginationVars, headerVars >>

NextQuery == RunQuery

SpecQuery == InitQuery /\ [][NextQuery]_vars

(* ---------------------------- one ArticleCard --------------------------- *)
Amp == <<"&", "a", "m", "p", ";">>       \* the text &amp;
Amp038 == <<"&", "#", "0", "3", "8", ";">> \* the text &#038;

\* String.prototype.replace(/pat/g, rep)
RECURSIVE ReplaceAll(_, _, _)
ReplaceAll(text, pat, by) ==
  IF Len(text) < Len(pat) THEN text
  ELSE IF SubSeq(text, 1, Len(pat)) = pat
       THEN by \o ReplaceAll(SubSeq(text, Len(pat) + 1, Len(text)), pat, by)
       ELSE <<Head(text)>> \o ReplaceAll(Tail(text), pat, by)

DecodeImageUrl(url) ==
  IF url = << >> THEN << >>
  ELSE ReplaceAll(ReplaceAll(url, Amp038, <<"&">>), Amp, <<"&">>)

colors ==
  [ AI |-> "#5b7fff", TOOLS |-> "#ff5b7f", DEV |-> "#7fff5b", WEB |-> "#ffdf5b",
    CLOUD |-> "#5bffdf", CYBERSECURITY |-> "#df5bff", MOBILE |-> "#ff8c5b",
    STARTUPS |-> "#5bffff", OPEN_SOURCE |-> "#ffd35b", NEWS |-> "#8b5bff" ]

getCategoryColor(category) ==
  IF category \in DOMAIN colors THEN colors[category] ELSE "#5b7fff"

decodedImageUrl == DecodeImageUrl(cardArticle.image_url)

hasValidImage == decodedImageUrl # << >> /\ Trim(decodedImageUrl) # << >>

shouldShowPlaceholder == ~hasValidImage \/ imageError

\* the <img> element is rendered when hasValidImage, with this display style
imageDisplay == IF imageError THEN "none" ELSE "block"

imageVisible == hasValidImage /\ imageDisplay = "block"

\* the tags of the card: article.categories.slice(0, 3)
cardTags == Slice(cardArticle.categories, 0, 3)

CardUrls ==
  { << >>, <<" ">>, <<" ", " ">>, <<"u">>, <<"u">> \o Amp \o <<"v">>, Amp038, Amp,
    <<" ", "u">> }

\* category lists an article can come with: names the backend creates freely
CardCategoryLists ==
  { << >>, <<"AI">>, <<"AI", "DEV">>, <<"AI", "RUST">>, <<"RUST", "GO">>,
    <<"DEV", "WEB", "CLOUD", "NEWS">> }

InitCard ==
  /\ cardArticle \in [image_url : CardUrls, categories : CardCategoryLists]
  /\ imageError = FALSE
  /\ imageLoaded = FALSE
  /\ HookIdle
  /\ QueryIdle
  /\ PaginationIdle
  /\ HeaderIdle

\* Variant of handleImageLoad: a load event clears the error flag.
handleImageLoadClearingError ==
  /\ hasValidImage
  /\ imageLoaded' = TRUE
  /\ imageError' = FALSE
  /\ UNCHANGED cardArticle
  /\ UNCHANGED << hookVars, queryVars, paginationVars, headerVars >>

\* onLoad of the <img> element
handleImageLoad ==
  /\ hasValidImage
  /\ imageLoaded' = TRUE
  /\ UNCHANGED << cardArticle, imageError >>
  /\ UNCHANGED << hookVars, queryVars, paginationVars, headerVars >>

\* onError of the <img> element
handleImageError ==
  /\ hasValidImage
  /\ imageError' = TRUE
  /\ UNCHANGED << cardArticle, imageLoaded >>
  /\ UNCHANGED << hookVars, queryVars, paginationVars, headerVars >>

NextCard == handleImageLoad \/ handleImageError

SpecCard == InitCard /\ [][NextCard]_vars

(* ------------------------- the Header and the hook --------------------- *)
\* texts the search box can hold; the ones of Queries get submitted
HeaderTexts == Queries \cup { <<"a", "b">> }

\* the hook state that typing must leave alone
hookState == << dbRows, categories, loading, error, searchQuery, selectedCategories,
                sortBy, currentPage, totalItems, allArticles, mounted,
                fetchEffectDue, resetEffectDue, inFlight, categoriesInFlight,
                categoriesQueries, latestFetch >>

\* Variant of typeText: the input also searches as the user types (onSearch
\* called from onChange).
typeTextSearching(text) ==
  /\ ~EffectPending
  /\ text # headerSearchQuery
  /\ headerSearchQuery' = text
  /\ searchQuery' = text
  /\ fetchEffectDue' = (text # searchQuery)
  /\ lastOp' = Op("typeText", << >>)
  /\ UNCHANGED << dbRows, categories, loading, error, selectedCategories,
                  sortBy, currentPage, totalItems, allArticles, mounted,
                  resetEffectDue, inFlight, categoriesInFlight,
                  categoriesQueries, latestFetch >>
  /\ UNCHANGED << queryVars, cardVars, paginationVars >>

\* onChange of the search input: setSearchQuery(e.target.value) on the
\* Header's own state
typeText(text) ==
  /\ ~EffectPending
  /\ text # headerSearchQuery
  /\ headerSearchQuery' = text
  /\ lastOp' = Op("typeText", << >>)
  /\ UNCHANGED hookState
  /\ UNCHANGED << queryVars, cardVars, paginationVars >>

\* onSubmit of the search form: onSearch(searchQuery), that is the hook's
\* handleSearch with the Header's text
submitSearch ==
  /\ headerSearchQuery \in Queries
  /\ handleSearch(headerSearchQuery)

InitHeader ==
  /\ HookIdle
  /\ HeaderIdle
  /\ QueryIdle
  /\ CardIdle
  /\ PaginationIdle

NextHeader ==
  \/ \E text \in HeaderTexts : typeText(text)
  \/ submitSearch
  \/ handleClearFilters
  \/ \E category \in CatNames : handleCategoryToggle(category)
  \/ FlushEffects
  \/ \E q \in Queries, s \in Sorts : ArticlesLoaded(q, s)
  \/ \E q \in Queries, s \in Sorts, kind \in {"backend", "thrown"} : ArticlesFailed(q, s, kind)

SpecHeader == InitHeader /\ [][NextHeader]_vars

(* ---------------------------- one Pagination --------------------------- *)
Ellipsis == 0 - 1

\* Variant of getVisiblePages: the first window is taken for currentPage <= 2.
getVisiblePagesShortHead(cur, total) ==
  IF ~(total > 7) THEN [ i \in 1..total |-> i ]
  ELSE IF cur <= 2
       THEN [ i \in 1..5 |-> i ] \o << Ellipsis, total >>
  ELSE IF cur >= total - 2
       THEN << 1, Ellipsis >> \o [ i \in 1..5 |-> total - 5 + i ]
  ELSE << 1, Ellipsis, cur - 1, cur, cur + 1, Ellipsis, total >>

getVisiblePages(cur, total) ==
  IF ~(total > 7) THEN [ i \in 1..total |-> i ]
  ELSE IF cur <= 3
       THEN [ i \in 1..5 |-> i ] \o << Ellipsis, total >>
  ELSE IF cur >= total - 2
       THEN << 1, Ellipsis >> \o [ i \in 1..5 |-> total - 5 + i ]
  ELSE << 1, Ellipsis, cur - 1, cur, cur + 1, Ellipsis, total >>

\* the entries of the page strip as rendered
visiblePages == getVisiblePages(pagination.currentPage, pagination.totalPages)

\* if (totalPages <= 1) return null
paginationHidden == pagination.totalPages <= 1

\* onPageChange(page): the parent's handlePageChange, then the render with
\* the new currentPage prop
onPageChange(page) ==
  /\ pagination' =
       [pagination EXCEPT !.currentPage =
          IF page >= 1 /\ page <= pagination.totalPages THEN page ELSE @]
  /\ UNCHANGED << hookVars, queryVars, cardVars, headerVars >>

\* the Previous button, disabled on the first page
clickPrevious ==
  /\ ~paginationHidden
  /\ pagination.currentPage # 1
  /\ onPageChange(pagination.currentPage - 1)

\* the Next button, disabled on the last page
clickNext ==
  /\ ~paginationHidden
  /\ pagination.currentPage # pagination.totalPages
  /\ onPageChange(pagination.currentPage + 1)

\* the button of the index-th entry of the strip, when it is a page number
clickPage(index) ==
  /\ ~paginationHidden
  /\ index \in 1..Len(visiblePages)
  /\ visiblePages[index] # Ellipsis
  /\ onPageChange(visiblePages[index])

InitPagination ==
  /\ pagination \in [currentPage : {1}, totalPages : 0..MaxTotalPages]
  /\ HookIdle
  /\ QueryIdle
  /\ CardIdle
  /\ HeaderIdle

NextPagination ==
  \/ clickPrevious
  \/ clickNext
  \/ \E index \in 1..7 : clickPage(index)

SpecPagination == InitPagination /\ [][NextPagination]_vars

(* ------------------------------ properties ----------------------------- *)
Range(seq) == { seq[i] : i \in 1..Len(seq) }

Min(a, b) == IF a < b THEN a ELSE b

Carries(article, selected) == Range(article.categories) \cap Range(selected) # {}

\* C1: with an empty selection the filtered list is allArticles; otherwise it
\* holds exactly the articles of allArticles that carry at least one selected
\* category, each once, and no other article.
C1_FilterIsOrOverSelection ==
  IF selectedCategories = << >>
  THEN filteredArticles = allArticles
  ELSE LET kept == { i \in 1..Len(allArticles) : Carries(allArticles[i], selectedCategories) }
       IN  /\ Range(filteredArticles) = { allArticles[i] : i \in kept }
           /\ Len(filteredArticles) = Cardinality(kept)

\* Two categories are selected and an article carrying only one of them is kept,
\* while an article carrying none is dropped.
C1_Witness ==
  /\ Len(selectedCategories) = 2
  /\ \E i \in 1..Len(filteredArticles) : Len(filteredArticles[i].categories) = 1
  /\ Len(filteredArticles) > 0
  /\ Len(filteredArticles) < Len(allArticles)

\* the slice of a list at positions (p-1)*12+1 .. min(p*12, n)
ExpectedPage(list, p) ==
  LET first == (p - 1) * itemsPerPage + 1
      last  == Min(p * itemsPerPage, Len(list))
  IN  [ i \in 1..(IF last >= first THEN last - first + 1 ELSE 0) |-> list[first + i - 1] ]

RECURSIVE ConcatPages(_, _)
ConcatPages(list, k) ==
  IF k = 0 THEN << >> ELSE ConcatPages(list, k - 1) \o PageOf(list, k)

\* C2 as stated: the page is the slice, holds at most 12 articles,
\* totalPages = ceil(n/12) and the pages 1..totalPages reproduce the
\* filtered list, in every state.
C2_Original ==
  /\ paginatedArticles = ExpectedPage(filteredArticles, currentPage)
  /\ Len(paginatedArticles) <= itemsPerPage
  /\ totalPages = Ceil(Len(filteredArticles), itemsPerPage)
  /\ ConcatPages(filteredArticles, totalPages) = filteredArticles

\* C2 (amended): the page shown is always the slice at positions
\* (p-1)*12+1 .. min(p*12, n) and holds at most 12 articles; once the effect
\* on [filteredArticles] has run (it is not pending), totalPages = ceil(n/12)
\* and the pages 1..totalPages concatenated reproduce the filtered list.
C2_PageIsSlice ==
  LET list == filteredArticles
  IN  /\ PageOf(list, currentPage) = ExpectedPage(list, currentPage)
      /\ Len(PageOf(list, currentPage)) <= itemsPerPage
      /\ \A p \in 1..MaxPageArg : PageOf(list, p) = ExpectedPage(list, p)
      /\ ~resetEffectDue =>
            /\ totalPages = Ceil(Len(list), itemsPerPage)
            /\ ConcatPages(list, totalPages) = list

\* The last of three pages is shown and is partly filled.
C2_Witness ==
  /\ ~EffectPending
  /\ totalPages = 3
  /\ currentPage = 3
  /\ Len(paginatedArticles) > 0
  /\ Len(paginatedArticles) < itemsPerPage

\* C3: a fetch for the rendered searchQuery and sortBy is started by the
\* effect pass at mount and after every change of searchQuery or sortBy, and
\* otherwise only by refetch; handleCategoryToggle and handlePageChange start
\* no fetch and leave allArticles, searchQuery and sortBy unchanged.
C3_FetchStarts ==
  [][ /\ (searchQuery' # searchQuery \/ sortBy' # sortBy) => fetchEffectDue'
      /\ (~mounted \/ fetchEffectDue) => inFlight' = Launch(searchQuery, sortBy)
      /\ (\E r \in Requests : inFlight'[r] > inFlight[r]) =>
            \/ lastOp'.op = "refetch"
            \/ lastOp'.op = "effects" /\ (~mounted \/ fetchEffectDue)
      /\ lastOp'.op \in {"handleCategoryToggle", "handlePageChange"} =>
            /\ inFlight' = inFlight
            /\ fetchEffectDue' = FALSE
            /\ UNCHANGED << allArticles, searchQuery, sortBy >>
    ]_vars

\* After mount, a changed search text and sort order have led to a request
\* for exactly these values.
C3_Witness ==
  /\ lastOp.op = "effects"
  /\ searchQuery = <<"a">>
  /\ sortBy = "relevance"
  /\ inFlight[<<searchQuery, sortBy>>] > 0
  /\ Len(selectedCategories) > 0

\* C4: the categories query is issued exactly once, by the effect pass at
\* mount, and never again.
C4_CategoriesQueriedOnce ==
  categoriesQueries = (IF mounted THEN 1 ELSE 0)

\* A later effect pass (after a search) has run and the count is still one.
C4_Witness ==
  /\ lastOp.op = "effects"
  /\ searchQuery # EmptyQuery
  /\ allArticles # << >>
  /\ categoriesQueries = 1

\* C5: a failed article fetch sets error to the fixed message and loading to
\* false, whatever the failure, and leaves allArticles, selectedCategories,
\* searchQuery, sortBy and currentPage as they were.
C5_FailureKeepsState ==
  [][ lastOp'.op = "articlesFailed" =>
        /\ error' = ErrorMessage
        /\ loading' = FALSE
        /\ UNCHANGED << allArticles, selectedCategories, searchQuery, sortBy,
                        currentPage >>
    ]_vars

\* A request has thrown while articles, a selection, a search text and a
\* later page were in place.
C5_Witness ==
  /\ lastOp.op = "articlesFailed"
  /\ lastOp.arg = <<"thrown">>
  /\ allArticles # << >>
  /\ selectedCategories # << >>
  /\ searchQuery # EmptyQuery
  /\ currentPage > 1

\* C6: handleCategoryToggle(c) adds c when it is not selected and removes it
\* when it is, leaves the status of every other category unchanged, and
\* toggling the same category twice restores the same set of selected
\* categories; several categories can be selected at once.
C6_ToggleIsInvolution ==
  /\ [](\A c \in CatNames :
          Range(Toggle(Toggle(selectedCategories, c), c)) = Range(selectedCategories))
  /\ [][ lastOp'.op = "handleCategoryToggle" =>
            /\ Includes(selectedCategories', lastOp'.arg[1])
                  = ~Includes(selectedCategories, lastOp'.arg[1])
            /\ \A d \in CatNames \ {lastOp'.arg[1]} :
                  Includes(selectedCategories', d) = Includes(selectedCategories, d)
        ]_vars

\* A toggle has produced a selection of two categories.
C6_Witness ==
  /\ lastOp.op = "handleCategoryToggle"
  /\ Len(selectedCategories) = 2

\* C7: handleClearFilters leaves selectedCategories empty and searchQuery
\* the empty string, and does not change sortBy.
C7_ClearResetsFilters ==
  [][ lastOp'.op = "handleClearFilters" =>
        /\ selectedCategories' = << >>
        /\ searchQuery' = EmptyQuery
        /\ sortBy' = sortBy
    ]_vars

\* Clear has acted on a state with a selection and a search text (both
\* effects are due because of it) under the non-default sort order.
C7_Witness ==
  /\ lastOp.op = "handleClearFilters"
  /\ fetchEffectDue
  /\ resetEffectDue
  /\ sortBy = "relevance"

\* C8: a category toggle, clear filters with a category selected, and a
\* successful article fetch each make the effect on [filteredArticles] due,
\* and once that effect has run currentPage is 1.
C8_PageResetOnFilterChange ==
  [][ /\ lastOp'.op \in {"handleCategoryToggle", "articlesLoaded"} => resetEffectDue'
      /\ (lastOp'.op = "handleClearFilters" /\ Len(selectedCategories) > 0)
            => resetEffectDue'
      /\ resetEffectDue => (~resetEffectDue' /\ currentPage' = 1)
    ]_vars

\* A later page is displayed when a toggle changes the filtered subset.
C8_Witness ==
  /\ lastOp.op = "handleCategoryToggle"
  /\ resetEffectDue
  /\ currentPage > 1

\* C9: every category held by the hook carries the number of articles
\* linked to it in the backend as its article_count.
C9_ArticleCountIsLinkCount ==
  \A i \in 1..Len(categories) :
    categories[i].article_count = LinkCount(db, categories[i].name)

\* ids of the backend rows with filtered = true, per database (tabulated once)
FilteredIds ==
  [ n \in DbSizes |-> { r.id : r \in { x \in Databases[n] : x.filtered } } ]

NoneFiltered(list) ==
  \A i \in 1..Len(list) : list[i].id \notin FilteredIds[dbRows]

\* C10: no article whose backend row has filtered = true is in allArticles,
\* in the filtered list or on any page.
C10_NoFilteredArticle ==
  LET shown == filteredArticles
  IN  /\ NoneFiltered(allArticles)
      /\ NoneFiltered(shown)
      /\ \A p \in 1..MaxPageArg : NoneFiltered(PageOf(shown, p))

\* Articles were loaded for a search text that a filtered row matches too.
C10_Witness ==
  /\ lastOp.op = "articlesLoaded"
  /\ searchQuery = <<"a">>
  /\ allArticles # << >>
  /\ \E r \in db : r.filtered /\ Ilike(r.title, searchQuery)

(* ---- C11 ---- *)
HasNonSpace(text) == \E i \in 1..Len(text) : text[i] # " "

LowerText(text) == [ i \in 1..Len(text) |-> Lower(text[i]) ]

\* part occurs in text as a contiguous piece, letter case ignored
OccursIn(part, text) ==
  \E i \in 1..(Len(text) + 1) : \E j \in (i - 1)..Len(text) :
    SubSeq(LowerText(text), i, j) = LowerText(part)

ResultIds(list) == { list[i].id : i \in 1..Len(list) }

\* C11: the search filter is applied to the article query exactly when the
\* search text holds a non-whitespace character.  When applied, the query
\* returns exactly the unfiltered rows whose title or description contains
\* the text (as typed, letter case ignored); when not applied it returns
\* every unfiltered row, and a whitespace-only text returns the same
\* articles as the empty text.
C11_SearchFilter ==
  queryDone =>
    LET rows == { r \in Database(queryRows) : ~r.filtered }
        hits == { r \in rows : OccursIn(queryText, r.title) \/ OccursIn(queryText, r.description) }
    IN  /\ Len(queryResult) = Cardinality(ResultIds(queryResult))
        /\ HasNonSpace(queryText)  => ResultIds(queryResult) = { r.id : r \in hits }
        /\ ~HasNonSpace(queryText) =>
             /\ ResultIds(queryResult) = { r.id : r \in rows }
             /\ queryResult = FormatArticles(ArticlesQuery(Database(queryRows), EmptyQuery, querySort))

\* A query with the text "A" ran: it kept the rows matching by title only
\* in another letter case and by description only, and dropped others.
C11_Witness ==
  /\ queryDone
  /\ queryText = <<"A">>
  /\ queryRows = MaxRows
  /\ \E r \in Database(queryRows) :
       r.id \in ResultIds(queryResult) /\ r.description = <<"a">> /\ ~OccursIn(queryText, r.title)
  /\ \E r \in Database(queryRows) :
       r.id \in ResultIds(queryResult) /\ r.description = << >>
  /\ \E r \in Database(queryRows) : ~r.filtered /\ r.id \notin ResultIds(queryResult)

(* ---- C12 ---- *)
SortKey(article, s) == article[SortColumn(s)]

NonIncreasing(list, s) ==
  \A i \in 1..Len(list) : \A j \in 1..Len(list) :
    i < j => SortKey(list[i], s) >= SortKey(list[j], s)

\* C12: when the articles of the current query have just been loaded, the
\* list is in descending order of the active sort key (published_date
\* for 'recent', relevance_score for 'relevance'), the category filter
\* keeps that order, and every page is the next piece of the filtered
\* list, so no article is shown before one that ranks higher.
C12_ShownInSortOrder ==
  (lastOp.op = "articlesLoaded" /\ allArticles = Delivered[dbRows, searchQuery, sortBy]) =>
    LET shown == filteredArticles
    IN  /\ NonIncreasing(allArticles, sortBy)
        /\ NonIncreasing(shown, sortBy)
        /\ \A p \in 1..MaxPageArg :
             PageOf(shown, p) =
               SubSeq(shown, (p - 1) * itemsPerPage + 1, Min(p * itemsPerPage, Len(shown)))

(* ---- C13 ---- *)
\* C13: every category has a colour of its own: two tags of a card that
\* name different categories are drawn in different colours.
C13_UniqueColours ==
  \A i \in 1..Len(cardTags) : \A j \in 1..Len(cardTags) :
    cardTags[i] # cardTags[j] => getCategoryColor(cardTags[i]) # getCategoryColor(cardTags[j])

(* ---- C14 ---- *)
Blank(text) == \A i \in 1..Len(text) : text[i] = " "

\* C14: the placeholder is displayed exactly when the decoded image URL is
\* empty or whitespace-only or the image failed to load, and the image is
\* visible exactly when the placeholder is not displayed; once imageError
\* is set it stays set, so the card stays on the placeholder with the
\* image hidden.
C14_PlaceholderFallback ==
  /\ [](/\ shouldShowPlaceholder <=> (Blank(DecodeImageUrl(cardArticle.image_url)) \/ imageError)
        /\ imageVisible <=> ~shouldShowPlaceholder)
  /\ [][imageError => (imageError' /\ shouldShowPlaceholder' /\ ~imageVisible')]_vars

\* An image with an encoded URL failed to load, and a load event was seen
\* for it as well.
C14_Witness ==
  /\ cardArticle.image_url = <<"u">> \o Amp \o <<"v">>
  /\ decodedImageUrl = <<"u", "&", "v">>
  /\ imageError
  /\ imageLoaded
  /\ shouldShowPlaceholder

(* ---- C15 ---- *)
\* C15: with stored scores that are integers in 1..5 or missing, every
\* article the query produces has a relevance score in 1..5: the stored
\* score when there is one, 3 when there is none.
C15_ScoreInRange ==
  queryDone =>
    \A i \in 1..Len(queryResult) :
      LET stored == Row(queryResult[i].id).relevance_score
          score  == queryResult[i].relevance_score
      IN  /\ score \in 1..5
          /\ stored = NullScore => score = DefaultScore
          /\ stored \in 1..5 => score = stored

\* The query produced an article whose stored score is missing and
\* articles with the stored scores 1 and 5.
C15_Witness ==
  /\ queryDone
  /\ \E i \in 1..Len(queryResult) : Row(queryResult[i].id).relevance_score = NullScore
  /\ \E i \in 1..Len(queryResult) : queryResult[i].relevance_score = 1
  /\ \E i \in 1..Len(queryResult) : queryResult[i].relevance_score = 5

(* ---- C16 ---- *)
\* C16: once every started article fetch has completed successfully
\* (nothing in flight, no fetch about to start, the most recently started
\* fetch loaded, no failure since it started), allArticles is the result of
\* the query for the current searchQuery and sortBy, whatever the order in
\* which overlapping responses arrived.
C16_CurrentQueryResult ==
  (/\ InFlightCount = 0
   /\ ~fetchEffectDue
   /\ latestFetch = "loaded"
   /\ error = NoError)
  => allArticles = Delivered[dbRows, searchQuery, sortBy]

(* ---- C17 ---- *)
\* C17: loading is true in every state in which an article fetch is in
\* flight (so it can turn false only when none remains in flight).
C17_LoadingWhileInFlight ==
  InFlightCount > 0 => loading

(* ---- C18 ---- *)
\* C18: error is non-null only if the most recently started article fetch
\* has failed; when the most recently started fetch has loaded, error is
\* null, whatever happened to the fetches it overlapped with.
C18_ErrorOnlyIfLatestFailed ==
  /\ error # NoError => latestFetch = "failed"
  /\ latestFetch = "loaded" => error = NoError

(* ---- C19 ---- *)
\* C19: the return of a fetch's backend request, with data or with an
\* error, sets loading to false in that very step; once no article fetch
\* is in flight loading is false, and loading turns true again only in a
\* step that starts a new fetch.
C19_LoadingEndsWithFetch ==
  /\ [][ (\E r \in Requests : inFlight'[r] < inFlight[r]) => ~loading' ]_vars
  /\ []( (mounted /\ InFlightCount = 0) => ~loading )
  /\ [][ (~loading /\ loading') => (\E r \in Requests : inFlight'[r] > inFlight[r]) ]_vars

\* The last of two overlapping fetches has just returned, this one with an
\* error, and nothing is in flight any more.
C19_Witness ==
  /\ lastOp.op = "articlesFailed"
  /\ latestFetch = "loaded"
  /\ InFlightCount = 0
  /\ ~loading

(* ---- C20 ---- *)
\* C20: Home shows the spinner whenever loading is true; otherwise the
\* error view whenever error is non-null; otherwise 'No articles found'
\* whenever the page slice is empty; otherwise the list with the
\* pagination.  No article is listed while loading is true or error is
\* non-null, even when allArticles is non-empty.
C20_MainViewPriority ==
  /\ loading => MainView = "spinner"
  /\ (~loading /\ error # NoError) => MainView = "error"
  /\ (~loading /\ error = NoError /\ paginatedArticles = << >>) => MainView = "empty"
  /\ (~loading /\ error = NoError /\ paginatedArticles # << >>) =>
        (MainView = "list" /\ listedArticles = paginatedArticles /\ paginationMounted)
  /\ (loading \/ error # NoError) => (listedArticles = << >> /\ ~paginationMounted)
  /\ tryAgainShown <=> (~loading /\ error # NoError)

\* A fetch failed after articles had been loaded: the error view is shown
\* although the current page holds articles.
C20_Witness ==
  /\ ~loading
  /\ error # NoError
  /\ allArticles # << >>
  /\ paginatedArticles # << >>
  /\ MainView = "error"

(* ---- C21 ---- *)
\* the categories request has returned and left categories empty: it failed
CategoriesFetchFailed == mounted /\ ~categoriesInFlight /\ categories = << >>

\* C21: the step in which the categories fetch fails changes neither
\* categories (still the empty list) nor error nor loading nor anything
\* the article fetch, the category filter and the pagination read or
\* write; afterwards categories stays empty.
C21_CategoriesFailureSwallowed ==
  /\ [][ lastOp'.op = "categoriesFailed" =>
            /\ categories = << >> /\ categories' = << >>
            /\ error' = error
            /\ loading' = loading
            /\ UNCHANGED << searchQuery, sortBy, selectedCategories, currentPage,
                            totalItems, allArticles, inFlight, latestFetch,
                            fetchEffectDue, resetEffectDue >>
        ]_vars
  /\ [][ CategoriesFetchFailed => categories' = << >> ]_vars

\* After the categories fetch failed, articles were loaded and filtered by a
\* category, and the second page of the filtered list is shown without error.
C21_Witness ==
  /\ CategoriesFetchFailed
  /\ error = NoError
  /\ ~loading
  /\ ~EffectPending
  /\ selectedCategories # << >>
  /\ currentPage = 2
  /\ paginatedArticles # << >>

(* ---- C22 ---- *)
Max(a, b) == IF a > b THEN a ELSE b

\* C22: handlePageChange(p) sets currentPage to p when 1 <= p <= totalPages
\* and leaves it unchanged otherwise, so a page change never leaves the
\* range; and whenever no effect is pending, 1 <= currentPage <=
\* max(1, totalPages).
C22_PageInRange ==
  /\ [](~EffectPending =>
          /\ 1 <= currentPage /\ currentPage <= Max(1, totalPages)
          /\ \A p \in 0..(MaxPageArg + 1) :
               ENABLED (/\ handlePageChange(p)
                        /\ currentPage' = IF 1 <= p /\ p <= totalPages THEN p ELSE currentPage))
  /\ [][ lastOp'.op = "handlePageChange" =>
            (currentPage' = currentPage \/ (1 <= currentPage' /\ currentPage' <= totalPages)) ]_vars

\* A page change has moved to the last of three pages.
C22_Witness ==
  /\ lastOp.op = "handlePageChange"
  /\ totalPages = 3
  /\ currentPage = 3

(* ---- C23 ---- *)
\* C23: whenever no effect is pending, totalItems is the length of the
\* filtered list, so totalPages is ceil(filteredArticlesCount / 12) and
\* the totalPages and totalItems that Pagination receives agree.
C23_TotalItemsIsFilteredCount ==
  ~EffectPending =>
    /\ totalItems = filteredArticlesCount
    /\ totalPages = Ceil(filteredArticlesCount, 12)
    /\ paginationProps.totalItems = totalItems
    /\ paginationProps.totalPages =
         Ceil(paginationProps.totalItems, paginationProps.itemsPerPage)

\* The articles are loaded, a category is selected and the effect pass has
\* just run: the filtered list is shorter than the fetched one, whose
\* length the fetch had stored in totalItems.
C23_Witness ==
  /\ ~EffectPending
  /\ lastOp.op = "effects"
  /\ latestFetch = "loaded"
  /\ InFlightCount = 0
  /\ selectedCategories # << >>
  /\ 0 < filteredArticlesCount
  /\ filteredArticlesCount < Len(allArticles)

(* ---- C24 ---- *)
IsPage(entry) == entry # Ellipsis

\* C24: for totalPages >= 2 and currentPage in 1..totalPages the strip is
\* 1..totalPages when totalPages <= 7; otherwise it has 7 entries, starts
\* with 1, ends with totalPages, contains currentPage, its page numbers
\* increase strictly, every ellipsis stands between two page numbers that
\* are not consecutive, and neighbouring page numbers are consecutive.
C24_VisiblePagesWellFormed ==
  LET cur   == pagination.currentPage
      total == pagination.totalPages
      v     == getVisiblePages(cur, total)
  IN  (total >= 2 /\ cur \in 1..total) =>
        IF total <= 7
        THEN v = [ i \in 1..total |-> i ]
        ELSE /\ Len(v) = 7
             /\ v[1] = 1
             /\ v[7] = total
             /\ \E i \in 1..7 : v[i] = cur
             /\ \A i \in 1..7 : \A j \in 1..7 :
                  (i < j /\ IsPage(v[i]) /\ IsPage(v[j])) => v[i] < v[j]
             /\ \A i \in 1..7 :
                  ~IsPage(v[i]) =>
                    /\ 1 < i /\ i < 7
                    /\ IsPage(v[i - 1]) /\ IsPage(v[i + 1])
                    /\ v[i + 1] > v[i - 1] + 1
             /\ \A i \in 1..6 :
                  (IsPage(v[i]) /\ IsPage(v[i + 1])) => v[i + 1] = v[i] + 1

\* Page 4 of 8 is shown: the strip has an ellipsis on each side, the first
\* hiding page 2 only.
C24_Witness ==
  /\ pagination.totalPages = 8
  /\ pagination.currentPage = 4
  /\ visiblePages = << 1, Ellipsis, 3, 4, 5, Ellipsis, 8 >>

(* ---- C25 ---- *)
\* C25: selectedCategories never holds the same category twice.
C25_NoDuplicateSelection ==
  \A i \in 1..Len(selectedCategories) : \A j \in 1..Len(selectedCategories) :
    i # j => selectedCategories[i] # selectedCategories[j]

\* A toggle has selected AI after DEV; toggling DEV again would leave AI
\* alone in the selection.
C25_Witness ==
  /\ selectedCategories = << "DEV", "AI" >>
  /\ lastOp.op = "handleCategoryToggle"
  /\ Toggle(selectedCategories, "DEV") = << "AI" >>

(* ---- C26 ---- *)
\* C26: a step that changes the Header's text is a typing step and changes
\* nothing in the hook (searchQuery stays, no fetch becomes due or starts);
\* the hook's searchQuery changes only on a submit, which sets it to the
\* Header's text, and on handleClearFilters, which sets it to the empty
\* string; submit and clear leave the Header's text unchanged.
C26_HeaderTextIsLocal ==
  [][ /\ headerSearchQuery' # headerSearchQuery =>
           /\ lastOp'.op = "typeText"
           /\ searchQuery' = searchQuery
           /\ fetchEffectDue' = fetchEffectDue
           /\ inFlight' = inFlight
           /\ loading' = loading
      /\ lastOp'.op = "typeText" => UNCHANGED hookState
      /\ searchQuery' # searchQuery => lastOp'.op \in {"handleSearch", "handleClearFilters"}
      /\ lastOp'.op = "handleSearch" =>
           (searchQuery' = headerSearchQuery /\ headerSearchQuery' = headerSearchQuery)
      /\ lastOp'.op = "handleClearFilters" =>
           (searchQuery' = EmptyQuery /\ headerSearchQuery' = headerSearchQuery)
    ]_vars

\* Clear filters has just reset a submitted search: the hook's searchQuery
\* is empty while the Header still holds the text.
C26_Witness ==
  /\ lastOp.op = "handleClearFilters"
  /\ fetchEffectDue
  /\ searchQuery = EmptyQuery
  /\ headerSearchQuery = <<"a">>

====
